---- MODULE Spec2Model ----
(***************************************************************************)
(* Model of lib/device/switch-single.js: the handler of one Meross switch. *)
(*                                                                         *)
(* The handler funnels every outbound request (state poll, power probe,    *)
(* power poll, on/off command) through one p-queue created with            *)
(* concurrency 1, interval 250 ms, intervalCap 1, timeout 10 s and         *)
(* throwOnTimeout.  Push updates (receiveUpdate) bypass the queue.         *)
(*                                                                         *)
(* JavaScript runs one macrotask at a time and drains all microtasks       *)
(* before the next one, so every step below is one macrotask (a call from  *)
(* HomeKit, a timer, a transport completion, a push message) together with *)
(* every promise continuation it triggers, the queue's _next() included.   *)
(*                                                                         *)
(* An optional JavaScript value is a sequence: <<>> is undefined, <<v>> is *)
(* the value v.                                                            *)
(***************************************************************************)
EXTENDS Integers, Sequences, FiniteSets, TLC

\* ------------------------------------------------------------- bounds
\* Number of submissions from outside the constructor: calls of HomeKit's set
\* handler and firings of the two polling timers.
MaxSubmissions == 1

\* ------------------------------------------------- program constants
Concurrency == 1
IntervalCap == 1
InUsePowerThreshold == 5
HapCommunicationFailure == -70402
\* `interval: 250`, counted in clock units of 125 ms.
Interval == 2

Undefined == <<>>
Def(x) == <<x>>

\* Raw readings a device may report (milliwatts, decivolts as the device counts them).
PowerVals == {0, 12000}
VoltageVals == {2300}
IpVals == {"10.0.0.1", "10.0.0.2"}

\* The signatures requestUpdate's catch looks for in an error text.  An error
\* text is modelled by the set of signatures it contains.
Signatures == {"EHOSTUNREACH", "timed out"}
ErrTexts == {{}, {"EHOSTUNREACH"}, {"timed out"}}
\* platformLang.timeout (utils/lang-en.js): the text is not part of the file
\* modelled here, so both possibilities are kept.
LangTimeoutTexts == {{}, {"timed out"}}

VARIABLES
    cacheState,        \* this.cacheState
    isToggleX,         \* this.isToggleX : optional BOOLEAN
    cachePower,        \* this.cachePower : optional raw power
    cacheVoltage,      \* this.cacheVoltage : optional raw voltage
    cacheInUse,        \* this.cacheInUse : optional BOOLEAN
    updateInProgress,  \* this.updateInProgress
    isOnline,          \* accessory.context.isOnline
    ipAddress,         \* accessory.context.ipAddress : optional
    charOn,            \* value shown for the On characteristic
    charInUse,         \* value of the OutletInUse characteristic
    queue,             \* p-queue: tasks waiting to start, FIFO
    pending,           \* p-queue: tasks started and not yet settled (pendingCount)
    abandoned,         \* tasks the queue timed out whose sendUpdate call has not returned
    intervalCount,     \* p-queue: tasks started in the current interval window
    nextTick,          \* p-queue interval timer: clock units to its next tick, 0: not set
    intervalEnd,       \* p-queue: clock units until Date.now() passes #intervalEnd, 0: passed
    timeoutId,         \* p-queue: the timer that resumes the interval is set
    sinceStart,        \* clock units since the queue last started a task, capped at Interval
    powerIntervals,    \* number of setInterval(requestPowerReadings) timers created
    reverts,           \* pending setTimeout(2000) callbacks of internalStateUpdate's catch
    nextId,            \* next task id
    sendCount,         \* how many times sendUpdate was called for each task id
    ev                 \* what the last step did: sends, notifications, history entries, results

vars == <<cacheState, isToggleX, cachePower, cacheVoltage, cacheInUse,
          updateInProgress, isOnline, ipAddress, charOn, charInUse, queue,
          pending, abandoned, intervalCount, nextTick, intervalEnd, timeoutId,
          sinceStart, powerIntervals, reverts, nextId, sendCount, ev>>

\* The state as one record, so that a handler can be written as a function
\* from state to state and handlers can call each other.
State == [cacheState |-> cacheState, isToggleX |-> isToggleX,
          cachePower |-> cachePower, cacheVoltage |-> cacheVoltage,
          cacheInUse |-> cacheInUse, updateInProgress |-> updateInProgress,
          isOnline |-> isOnline, ipAddress |-> ipAddress, charOn |-> charOn,
          charInUse |-> charInUse, queue |-> queue, pending |-> pending,
          abandoned |-> abandoned, intervalCount |-> intervalCount,
          nextTick |-> nextTick, intervalEnd |-> intervalEnd,
          timeoutId |-> timeoutId, sinceStart |-> sinceStart,
          powerIntervals |-> powerIntervals, reverts |-> reverts,
          nextId |-> nextId, sendCount |-> sendCount, ev |-> <<>>]

Commit(s) ==
    /\ cacheState' = s.cacheState
    /\ isToggleX' = s.isToggleX
    /\ cachePower' = s.cachePower
    /\ cacheVoltage' = s.cacheVoltage
    /\ cacheInUse' = s.cacheInUse
    /\ updateInProgress' = s.updateInProgress
    /\ isOnline' = s.isOnline
    /\ ipAddress' = s.ipAddress
    /\ charOn' = s.charOn
    /\ charInUse' = s.charInUse
    /\ queue' = s.queue
    /\ pending' = s.pending
    /\ abandoned' = s.abandoned
    /\ intervalCount' = s.intervalCount
    /\ nextTick' = s.nextTick
    /\ intervalEnd' = s.intervalEnd
    /\ timeoutId' = s.timeoutId
    /\ sinceStart' = s.sinceStart
    /\ powerIntervals' = s.powerIntervals
    /\ reverts' = s.reverts
    /\ nextId' = s.nextId
    /\ sendCount' = s.sendCount
    /\ ev' = s.ev

\* ------------------------------------------------------------- events
\* An event: its type, the id of the task it belongs to (0: none) and a record
\* of details.
Ev(t, id, x) == [t |-> t, id |-> id, x |-> x]
Emit(s, e) == [s EXCEPT !.ev = Append(@, e)]
Events(t) == SelectSeq(ev, LAMBDA e : e.t = t)
EventsOf(t, id) == SelectSeq(ev, LAMBDA e : e.t = t /\ e.id = id)

\* ------------------------------------------------------------- tasks
Task(id, kind, value, firstRun) ==
    [id |-> id, kind |-> kind, value |-> value, firstRun |-> firstRun]

\* ------------------------------------------------- CommandTranslator
\* Faulty variant: an undefined isToggleX treated as ToggleX.
CommandForDefaultToggleX(toggleX, value) ==
    IF toggleX # Def(FALSE)
    THEN [namespace |-> "Appliance.Control.ToggleX",
          payload |-> [key |-> "togglex", onoff |-> Def(IF value THEN 1 ELSE 0),
                       channel |-> Def(0)]]
    ELSE [namespace |-> "Appliance.Control.Toggle",
          payload |-> [key |-> "toggle", onoff |-> Def(IF value THEN 1 ELSE 0),
                       channel |-> Undefined]]

\* internalStateUpdate, lines 109-127: `if (this.isToggleX)` is a truthiness test.
CommandFor(toggleX, value) ==
    IF toggleX = Def(TRUE)
    THEN [namespace |-> "Appliance.Control.ToggleX",
          payload |-> [key |-> "togglex", onoff |-> Def(IF value THEN 1 ELSE 0),
                       channel |-> Def(0)]]
    ELSE [namespace |-> "Appliance.Control.Toggle",
          payload |-> [key |-> "toggle", onoff |-> Def(IF value THEN 1 ELSE 0),
                       channel |-> Undefined]]

\* ------------------------------------------------------- applyUpdate
\* Faulty variant: the reading divided by ten thousand instead of a thousand.
ScaledPowerTenfoldDivisor(newPower) == (newPower + 50) \div 100

\* Math.round(newPower / 10) / 100, kept in hundredths of a watt.
ScaledPower(newPower) == (newPower + 5) \div 10
\* Math.round(newVoltage * 10) / 100, kept in hundredths of a volt.
ScaledVoltage(newVoltage) == newVoltage * 10

Fragment(onoff, power, voltage) == [onoff |-> onoff, power |-> power, voltage |-> voltage]

UpdateCharacteristicOn(s, v) ==
    Emit([s EXCEPT !.charOn = v], Ev("notify", 0, [field |-> "On", on |-> v]))

\* Faulty variant: the on/off value is written and notified without comparing
\* it to the cache.
ApplyOnOffNoCompare(s, data) ==
    IF data.onoff = Undefined THEN s
    ELSE LET newState == (data.onoff[1] = 1) IN
         Emit([UpdateCharacteristicOn(s, newState) EXCEPT !.cacheState = newState],
              Ev("addEntry", 0, [status |-> IF newState THEN 1 ELSE 0]))

ApplyOnOff(s, data) ==
    IF data.onoff = Undefined THEN s
    ELSE LET newState == (data.onoff[1] = 1) IN
         IF s.cacheState # newState
         THEN Emit([UpdateCharacteristicOn(s, newState) EXCEPT !.cacheState = newState],
                   Ev("addEntry", 0, [status |-> IF newState THEN 1 ELSE 0]))
         ELSE s

\* Faulty variant: inUse derived from the power alone.
ApplyPowerIgnoringState(s, data) ==
    IF data.power = Undefined THEN s
    ELSE LET newPower == data.power[1]
             changed == s.cachePower # Def(newPower)
             scaledPower == ScaledPower(newPower)
             newInUse == IF changed
                         THEN Def(scaledPower > InUsePowerThreshold * 100)
                         ELSE s.cacheInUse
             s1 == IF changed
                   THEN Emit([s EXCEPT !.cachePower = Def(newPower)],
                             Ev("notify", 0, [field |-> "CurrentConsumption",
                                               centiwatts |-> scaledPower]))
                   ELSE s
         IN  IF s1.cacheInUse # newInUse
             THEN Emit([s1 EXCEPT !.cacheInUse = newInUse,
                                  !.charInUse = (newInUse = Def(TRUE))],
                       Ev("notify", 0, [field |-> "OutletInUse",
                                         inUse |-> (newInUse = Def(TRUE))]))
             ELSE s1

\* applyUpdate, lines 286-307: inUse is recomputed only when the power changed.
ApplyPower(s, data) ==
    IF data.power = Undefined THEN s
    ELSE LET newPower == data.power[1]
             changed == s.cachePower # Def(newPower)
             scaledPower == ScaledPower(newPower)
             newInUse == IF changed
                         THEN Def(s.cacheState /\ scaledPower > InUsePowerThreshold * 100)
                         ELSE s.cacheInUse
             s1 == IF changed
                   THEN Emit([s EXCEPT !.cachePower = Def(newPower)],
                             Ev("notify", 0, [field |-> "CurrentConsumption",
                                               centiwatts |-> scaledPower]))
                   ELSE s
         IN  IF s1.cacheInUse # newInUse
             THEN Emit([s1 EXCEPT !.cacheInUse = newInUse,
                                  !.charInUse = (newInUse = Def(TRUE))],
                       Ev("notify", 0, [field |-> "OutletInUse",
                                         inUse |-> (newInUse = Def(TRUE))]))
             ELSE s1

ApplyVoltage(s, data) ==
    IF data.voltage = Undefined THEN s
    ELSE LET newVoltage == data.voltage[1] IN
         IF s.cacheVoltage # Def(newVoltage)
         THEN Emit([s EXCEPT !.cacheVoltage = Def(newVoltage)],
                   Ev("notify", 0, [field |-> "Voltage",
                                    centivolts |-> ScaledVoltage(newVoltage)]))
         ELSE s

ApplyUpdate(s, data) ==
    LET s0 == Emit(s, Ev("applyUpdate", 0,
                         [data |-> data, cacheState |-> s.cacheState,
                          cachePower |-> s.cachePower, cacheVoltage |-> s.cacheVoltage,
                          cacheInUse |-> s.cacheInUse]))
    IN  ApplyVoltage(ApplyPower(ApplyOnOff(s0, data), data), data)


\* ------------------------------------------------------- the p-queue
\* PQueue({concurrency: 1, interval: 250, intervalCap: 1, timeout: 10000,
\* throwOnTimeout: true}).  A task is started (its function is called) only
\* when both tests allow it; otherwise it waits in `queue`.
DoesIntervalAllowAnother(s) == s.intervalCount < IntervalCap
\* Faulty variant: the queue built without `concurrency: 1`.
DoesConcurrentAllowAnotherUnlimited(s) == TRUE
DoesConcurrentAllowAnother(s) == Cardinality(s.pending) < Concurrency

\* Faulty variant: the idle handler leaving the flag alone.
OnIdleNoReset(s) == s
\* queue.on('idle', ...), lines 66-68.
OnIdle(s) == [s EXCEPT !.updateInProgress = FALSE]

\* The payload {}.
EmptyPayload == [key |-> "", onoff |-> Undefined, channel |-> Undefined]

\* The request a task of each kind sends (lines 130, 168, 331, 373).
RequestOf(s, t) ==
    CASE t.kind = "cmd" -> CommandFor(s.isToggleX, t.value)
      [] t.kind = "poll" ->
            [namespace |-> "Appliance.System.All", payload |-> EmptyPayload]
      [] OTHER ->
            [namespace |-> "Appliance.Control.Electricity", payload |-> EmptyPayload]

\* Faulty variant: the test of line 102 left out.
IsNoChangeNever(s, t) == FALSE

\* internalStateUpdate's task returns at once when the value is the cached one
\* (lines 101-104).
IsNoChange(s, t) == t.kind = "cmd" /\ t.value = s.cacheState

\* The synchronous head of a task function, up to `await sendUpdate(...)`:
\* lines 101-133, 164-171, 328-334, 370-376.
TaskHead(s, t) ==
    Emit([s EXCEPT !.updateInProgress = TRUE, !.pending = @ \cup {t},
                   !.sendCount[t.id] = @ + 1],
         Ev("send", t.id, RequestOf(s, t)))

\* onSet (lines 47-49) has resolved: HomeKit stores the value it wrote as the
\* characteristic's value.
OnSetResolved(s, t) ==
    IF t.kind = "cmd" THEN [s EXCEPT !.charOn = t.value] ELSE s

\* p-queue #isIntervalPaused, a getter with effects: with no interval timer set
\* it either finds #intervalEnd passed and resets the count, or sets the timer
\* that resumes the interval at #intervalEnd and reports the interval paused.
IsIntervalPaused(s) == s.nextTick = 0 /\ s.intervalEnd > 0
AfterIsIntervalPaused(s) ==
    IF s.nextTick # 0 THEN s
    ELSE IF s.intervalEnd = 0 THEN [s EXCEPT !.intervalCount = 0]
    ELSE [s EXCEPT !.timeoutId = TRUE]

\* p-queue #initializeIntervalIfNeeded: setInterval(#onInterval, interval) and
\* #intervalEnd = Date.now() + interval, unless the timer is set already.
InitializeIntervalIfNeeded(s) ==
    IF s.nextTick # 0 THEN s
    ELSE [s EXCEPT !.nextTick = Interval, !.intervalEnd = Interval]

RECURSIVE RunTask(_, _, _)
RECURSIVE TryToStartAnother(_)

\* p-queue #tryToStartAnother: with an empty queue it clears the interval timer
\* and emits 'idle' when nothing is pending; otherwise it starts the head of the
\* queue if the interval and the concurrency allow it.
TryToStartAnother(s) ==
    IF s.queue = <<>>
    THEN LET s1 == [s EXCEPT !.nextTick = 0] IN
         IF Cardinality(s1.pending) = 0 THEN OnIdle(s1) ELSE s1
    ELSE LET s1 == AfterIsIntervalPaused(s) IN
         IF DoesIntervalAllowAnother(s1) /\ DoesConcurrentAllowAnother(s1)
         THEN RunTask([s1 EXCEPT !.queue = Tail(@)], Head(s1.queue),
                      ~IsIntervalPaused(s))
         ELSE s1

\* The job p-queue's add() enqueues: count the task against the interval, call
\* its function; then #tryToStartAnother initializes the interval timer.  A
\* function that returns without awaiting settles at once and #next() follows.
RunTask(s, t, canInitializeInterval) ==
    LET s1 == Emit([s EXCEPT !.intervalCount = @ + 1, !.sinceStart = 0],
                   Ev("start", t.id, [task |-> t, cacheState |-> s.cacheState,
                                      sinceStart |-> s.sinceStart]))
        s2 == IF IsNoChange(s1, t)
              THEN Emit(OnSetResolved(s1, t), Ev("resolve", t.id, [why |-> "noChange"]))
              ELSE TaskHead(s1, t)
        s3 == IF canInitializeInterval THEN InitializeIntervalIfNeeded(s2) ELSE s2
    IN  IF IsNoChange(s1, t) THEN TryToStartAnother(s3) ELSE s3

\* p-queue #processQueue: `while (#tryToStartAnother()) {}`.
RECURSIVE ProcessQueue(_)
ProcessQueue(s) ==
    LET s1 == TryToStartAnother(s) IN
    IF Len(s1.queue) < Len(s.queue) THEN ProcessQueue(s1) ELSE s1

\* p-queue #onInterval: a tick that finds nothing counted and nothing pending
\* clears the timer; the count is reset and the queue processed.
OnIntervalBody(s) ==
    LET s1 == IF s.intervalCount = 0 /\ Cardinality(s.pending) = 0
              THEN [s EXCEPT !.nextTick = 0] ELSE s
    IN  ProcessQueue([s1 EXCEPT !.intervalCount = 0])

\* p-queue #onResumeInterval.
OnResumeIntervalBody(s) ==
    [InitializeIntervalIfNeeded(OnIntervalBody(s)) EXCEPT !.timeoutId = FALSE]

\* One clock unit passes.
Advance(s) ==
    [s EXCEPT !.sinceStart = IF @ < Interval THEN @ + 1 ELSE @,
              !.intervalEnd = IF @ > 0 THEN @ - 1 ELSE @,
              !.nextTick = IF @ > 1 THEN @ - 1 ELSE @]

\* queue.add(fn): enqueue, then _tryToStartAnother().
Add(s, kind, value, firstRun) ==
    LET t == Task(s.nextId, kind, value, firstRun) IN
    TryToStartAnother([s EXCEPT !.queue = Append(@, t), !.nextId = @ + 1,
                                !.sendCount = Append(@, 0)])

\* ----------------------------------------- entry points that submit
\* requestUpdate(firstRun), lines 155-163: nothing when updateInProgress.
RequestUpdate(s, firstRun) ==
    IF s.updateInProgress
    THEN s
    ELSE Add(s, "poll", FALSE, firstRun)

\* setupPowerReadings(), lines 324-327.
SetupPowerReadings(s) == Add(s, "probe", FALSE, FALSE)

\* requestPowerReadings(), lines 366-369.
RequestPowerReadings(s) == Add(s, "power", FALSE, FALSE)

\* internalStateUpdate(value), lines 97-100; HomeKit shows the value it asked for.
InternalStateUpdate(s, value) ==
    Add([s EXCEPT !.charOn = value], "cmd", value, FALSE)


\* --------------------------------------------- transport responses
\* A full-state poll response (res.data.payload), by the fields the code reads:
\* all, all.digest.togglex[0] / all.digest.toggle, all.system,
\* all.system.hardware.macAddress, all.system.firmware.innerIp,
\* all.system.online.status.
PollResponse(all, digest, onoff, system, macAddress, innerIp, online) ==
    [all |-> all, digest |-> digest, onoff |-> onoff, system |-> system,
     macAddress |-> macAddress, innerIp |-> innerIp, online |-> online]

PollResponses ==
    {PollResponse(FALSE, "none", 0, FALSE, FALSE, Undefined, Undefined),
     PollResponse(TRUE, "toggle", 1, FALSE, FALSE, Undefined, Undefined),
     PollResponse(TRUE, "togglex", 1, TRUE, FALSE, Def("10.0.0.1"), Def(1)),
     PollResponse(TRUE, "none", 0, TRUE, TRUE, Undefined, Undefined)}
    \cup {PollResponse(TRUE, d, o, TRUE, TRUE, Def("10.0.0.1"), Def(1)) :
            d \in {"togglex", "toggle"}, o \in {0, 1}}
    \cup {PollResponse(TRUE, "togglex", 1, TRUE, TRUE, Def(ip), Def(on)) :
            ip \in IpVals, on \in {0, 1}}

\* A power response: payload.electricity, or nothing usable.
PowerResponses ==
    {Undefined} \cup {Def(Fragment(Undefined, Def(p), Def(v))) :
                        p \in PowerVals, v \in VoltageVals}

Responses(kind) ==
    CASE kind = "cmd" -> {"ack"}
      [] kind = "poll" -> PollResponses
      [] OTHER -> PowerResponses

\* What a task function did after its await: the state it left, and whether it threw.
Returned(s) == [s |-> s, thrown |-> FALSE, text |-> {}]
Thrown(s, text) == [s |-> s, thrown |-> TRUE, text |-> text]

\* ------------------------------------ the task functions after await
\* internalStateUpdate, lines 135-142.
CmdTail(s, t) ==
    Returned(Emit(Emit([s EXCEPT !.cacheState = t.value], Ev("cacheWrite", t.id, [value |-> t.value])),
                  Ev("addEntry", t.id, [status |-> IF t.value THEN 1 ELSE 0])))

\* Faulty variant: the digest decides isToggleX only while it is undefined.
PollDigestFirstOnly(s, res) ==
    LET s0 == Emit(s, Ev("digest", 0, [digest |-> res.digest, before |-> s.isToggleX]))
        keep(v) == IF s.isToggleX = Undefined THEN Def(v) ELSE s.isToggleX
    IN
    CASE res.digest = "togglex" ->
            ApplyUpdate([s0 EXCEPT !.isToggleX = keep(TRUE)],
                        Fragment(Def(res.onoff), Undefined, Undefined))
      [] res.digest = "toggle" ->
            ApplyUpdate([s0 EXCEPT !.isToggleX = keep(FALSE)],
                        Fragment(Def(res.onoff), Undefined, Undefined))
      [] OTHER -> s0

\* requestUpdate, lines 180-189: the digest decides isToggleX on every poll.
PollDigest(s, res) ==
    LET s0 == Emit(s, Ev("digest", 0, [digest |-> res.digest, before |-> s.isToggleX])) IN
    CASE res.digest = "togglex" ->
            ApplyUpdate([s0 EXCEPT !.isToggleX = Def(TRUE)],
                        Fragment(Def(res.onoff), Undefined, Undefined))
      [] res.digest = "toggle" ->
            ApplyUpdate([s0 EXCEPT !.isToggleX = Def(FALSE)],
                        Fragment(Def(res.onoff), Undefined, Undefined))
      [] OTHER -> s0

\* requestUpdate, lines 203-208: the IP address is checked on every poll.
PollIp(s, res) ==
    IF res.innerIp # Undefined /\ s.ipAddress # res.innerIp
    THEN [s EXCEPT !.ipAddress = res.innerIp] ELSE s

\* requestUpdate, lines 218-224.
PollOnline(s, res) ==
    IF res.online # Undefined /\ s.isOnline # (res.online[1] = 1)
    THEN [s EXCEPT !.isOnline = (res.online[1] = 1)] ELSE s

\* Faulty variant: the first run not forcing the notification.
PollNeedsNotifyChangesOnly(needsUpdate, firstRun) == needsUpdate

\* requestUpdate, line 227.
PollNeedsNotify(needsUpdate, firstRun) == needsUpdate \/ firstRun

\* requestUpdate, lines 173-230.  The mac address, hardware and firmware
\* versions are stored on the first run only and read by nothing here; they are
\* not kept, but reading them from a response that lacks them throws.
PollTail(s, t, res) ==
    IF ~res.all THEN Returned(s)
    ELSE LET s1 == PollDigest(s, res) IN
         IF ~res.system THEN Thrown(s1, {})
         ELSE IF t.firstRun /\ ~res.macAddress THEN Thrown(s1, {})
         ELSE LET s2 == PollIp(s1, res)
                  s3 == PollOnline(s2, res)
                  needsUpdate == s2 # s1 \/ s3 # s2
                  s4 == Emit(s3, Ev("pollDone", t.id,
                                    [firstRun |-> t.firstRun, res |-> res,
                                     ipAddress |-> s.ipAddress,
                                     isOnline |-> s.isOnline]))
              IN  Returned(IF PollNeedsNotify(needsUpdate, t.firstRun)
                           THEN Emit(s4, Ev("updateAccessory", t.id, [why |-> "poll"]))
                           ELSE s4)

\* setupPowerReadings, lines 335-354.
ProbeTail(s, t, res) ==
    IF res = Undefined THEN Thrown(s, {})
    ELSE LET s1 == [s EXCEPT !.cacheInUse = Def(s.charInUse)]
             s2 == RequestPowerReadings(s1)
         IN  Returned(Emit([s2 EXCEPT !.powerIntervals = @ + 1],
                           Ev("setInterval", t.id, [timer |-> "power"])))

\* requestPowerReadings, lines 378-387.
PowerTail(s, t, res) ==
    IF res = Undefined THEN Returned(s) ELSE Returned(ApplyUpdate(s, res[1]))

TaskTail(s, t, res) ==
    CASE t.kind = "cmd" -> CmdTail(s, t)
      [] t.kind = "poll" -> PollTail(s, t, res)
      [] t.kind = "probe" -> ProbeTail(s, t, res)
      [] OTHER -> PowerTail(s, t, res)

\* ----------------------------------------------- the catch blocks
\* internalStateUpdate, lines 144-152: arm the 2 s timer, throw HapStatusError.
\* `pre` remembers the cache value the command set out from (the opposite of the
\* value sent, by the test of line 102); the code does not keep it.
CatchCommand(s, t) ==
    Emit([s EXCEPT !.reverts = @ \cup {[id |-> t.id, pre |-> ~t.value]}],
         Ev("hapError", t.id, [code |-> HapCommunicationFailure]))

\* Faulty variant: the test of the previous online state left out.
MarksOfflineAnyTime(online, firstRun, eText) == \E el \in Signatures : el \in eText

\* requestUpdate, lines 239-242.
MarksOffline(online, firstRun, eText) ==
    (online \/ firstRun) /\ (\E el \in Signatures : el \in eText)

\* requestUpdate, lines 232-246.
CatchPoll(s, t, eText) ==
    LET s1 == Emit(s, Ev("pollFailed", t.id, [firstRun |-> t.firstRun, eText |-> eText,
                                              isOnline |-> s.isOnline])) IN
    IF MarksOffline(s.isOnline, t.firstRun, eText)
    THEN Emit([s1 EXCEPT !.isOnline = FALSE], Ev("updateAccessory", t.id, [why |-> "offline"]))
    ELSE s1

\* Faulty variant: the catch block marking the device offline.
CatchPowerMarksOffline(s, t) ==
    Emit([s EXCEPT !.isOnline = FALSE], Ev("addEntry", t.id, [power |-> 0]))
\* requestPowerReadings, lines 389-397.
CatchPower(s, t) == Emit(s, Ev("addEntry", t.id, [power |-> 0]))

\* The catch block of the function that submitted task t; setupPowerReadings
\* (lines 356-363) only logs.
Catch(s, t, eText) ==
    CASE t.kind = "cmd" -> CatchCommand(s, t)
      [] t.kind = "poll" -> CatchPoll(s, t, eText)
      [] t.kind = "probe" -> s
      [] OTHER -> CatchPower(s, t)

\* The task function of t has finished with r.  If the queue still waits for
\* it, the result goes to the submitter and _next() runs; if the queue timed it
\* out earlier, the result is dropped.
Settle(t, r) ==
    IF t \in r.s.pending
    THEN LET s1 == [r.s EXCEPT !.pending = @ \ {t}] IN
         TryToStartAnother(
             IF r.thrown
             THEN Catch(Emit(s1, Ev("reject", t.id, [err |-> "Error", kind |-> t.kind])),
                        t, r.text)
             ELSE OnSetResolved(s1, t))
    ELSE [r.s EXCEPT !.abandoned = @ \ {t}]

\* Faulty variant: the queue rejecting the task without going on to the next.
TimeOutWithoutNext(s, t, eText) ==
    LET s1 == [s EXCEPT !.pending = @ \ {t}, !.abandoned = @ \cup {t}] IN
    Catch(Emit(s1, Ev("reject", t.id, [err |-> "TimeoutError", kind |-> t.kind])),
          t, eText)

\* p-timeout after 10 s: the queue rejects with TimeoutError and moves on; the
\* task function itself keeps waiting for sendUpdate.
TimeOut(s, t, eText) ==
    LET s1 == [s EXCEPT !.pending = @ \ {t}, !.abandoned = @ \cup {t}] IN
    TryToStartAnother(
        Catch(Emit(s1, Ev("reject", t.id, [err |-> "TimeoutError", kind |-> t.kind])),
              t, eText))


\* ------------------------------------------------------ push updates
\* What the mqtt client may hand to receiveUpdate: nothing, a message without
\* payload, a togglex[0] without onoff, or a payload with togglex[0] or toggle.
PushParams ==
    {[shape |-> k, onoff |-> 0] : k \in {"undefined", "nopayload", "empty"}}
    \cup {[shape |-> "togglex", onoff |-> o] : o \in {0, 1}}
    \cup {[shape |-> "toggle", onoff |-> 1]}

\* receiveUpdate's try block, lines 251-261: reading params.payload of
\* undefined throws.
ReceiveUpdateTry(s, params) ==
    CASE params.shape = "undefined" -> Thrown(s, {})
      [] params.shape = "nopayload" -> Returned(s)
      [] params.shape = "empty" ->
            Returned(ApplyUpdate(s, Fragment(Undefined, Undefined, Undefined)))
      [] OTHER ->
            Returned(ApplyUpdate(s, Fragment(Def(params.onoff), Undefined, Undefined)))

\* Faulty variant: receiveUpdate without its try/catch.
ReceiveUpdateBodyNoCatch(s, params) ==
    LET r == ReceiveUpdateTry(s, params) IN
    Emit(r.s, Ev("push", 0, [shape |-> params.shape, caught |-> FALSE,
                             raised |-> r.thrown]))

\* receiveUpdate, lines 249-266: the catch logs and nothing reaches the caller.
ReceiveUpdateBody(s, params) ==
    LET r == ReceiveUpdateTry(s, params) IN
    Emit(r.s, Ev("push", 0, [shape |-> params.shape, caught |-> r.thrown,
                             raised |-> FALSE]))

\* Faulty variant: the timer restoring the value remembered when the command
\* was sent instead of reading the cache.
RevertBodyRemembered(s, r) ==
    UpdateCharacteristicOn(
        Emit([s EXCEPT !.reverts = @ \ {r}], Ev("revert", r.id, [pre |-> r.pre])),
        r.pre)

\* The timer callback of line 149.
RevertBody(s, r) ==
    UpdateCharacteristicOn(
        Emit([s EXCEPT !.reverts = @ \ {r}], Ev("revert", r.id, [pre |-> r.pre])),
        s.cacheState)

\* --------------------------------------------------------------- Init
\* The constructor, lines 50-84: cacheState is the On characteristic's value,
\* the queue is created, requestUpdate(true) and setupPowerReadings() are called.
Constructed(on, online, ip, inUse) ==
    SetupPowerReadings(
        RequestUpdate(
            [cacheState |-> on, isToggleX |-> Undefined, cachePower |-> Undefined,
             cacheVoltage |-> Undefined, cacheInUse |-> Undefined,
             updateInProgress |-> FALSE, isOnline |-> online, ipAddress |-> ip,
             charOn |-> on, charInUse |-> inUse, queue |-> <<>>, pending |-> {},
             abandoned |-> {}, intervalCount |-> 0, nextTick |-> 0,
             intervalEnd |-> 0, timeoutId |-> FALSE, sinceStart |-> Interval,
             powerIntervals |-> 0,
             reverts |-> {}, nextId |-> 1, sendCount |-> <<>>, ev |-> <<>>],
            TRUE))

Init ==
    \E on \in BOOLEAN, online \in BOOLEAN :
        LET s == Constructed(on, online, Def("10.0.0.1"), FALSE) IN
        /\ cacheState = s.cacheState
        /\ isToggleX = s.isToggleX
        /\ cachePower = s.cachePower
        /\ cacheVoltage = s.cacheVoltage
        /\ cacheInUse = s.cacheInUse
        /\ updateInProgress = s.updateInProgress
        /\ isOnline = s.isOnline
        /\ ipAddress = s.ipAddress
        /\ charOn = s.charOn
        /\ charInUse = s.charInUse
        /\ queue = s.queue
        /\ pending = s.pending
        /\ abandoned = s.abandoned
        /\ intervalCount = s.intervalCount
        /\ nextTick = s.nextTick
        /\ intervalEnd = s.intervalEnd
        /\ timeoutId = s.timeoutId
        /\ sinceStart = s.sinceStart
        /\ powerIntervals = s.powerIntervals
        /\ reverts = s.reverts
        /\ nextId = s.nextId
        /\ sendCount = s.sendCount
        /\ ev = s.ev

\* ------------------------------------------------------------ actions
\* Submissions made so far from outside the constructor: the constructor uses
\* ids 1 and 2, and a successful probe submits the first power poll itself.
Submissions == nextId - 3 - powerIntervals

\* HomeKit sets the On characteristic: onSet -> internalStateUpdate(value).
SetDesiredState ==
    /\ Submissions < MaxSubmissions
    /\ \E value \in BOOLEAN :
        Commit(InternalStateUpdate(State, value))

\* The refresh interval fires: requestUpdate().
PollTick ==
    /\ Submissions < MaxSubmissions
    /\ Commit(RequestUpdate(State, FALSE))

\* The power interval fires: requestPowerReadings().
PowerTick ==
    /\ powerIntervals > 0
    /\ Submissions < MaxSubmissions
    /\ Commit(RequestPowerReadings(State))

\* sendUpdate of a started task resolves.
TransportReply ==
    \E t \in pending \cup abandoned :
        \E res \in Responses(t.kind) :
            Commit(Settle(t, TaskTail(State, t, res)))

\* sendUpdate of a started task rejects.
TransportError ==
    \E t \in pending \cup abandoned :
        \E eText \in (IF t.kind = "poll" THEN ErrTexts ELSE {{}}) :
            Commit(Settle(t, Thrown(State, eText)))

\* The queue's 10 s timeout of a started task expires; the task was started
\* more than one interval ago.
QueueTimeout ==
    \E t \in pending :
        \E eText \in (IF t.kind = "poll" THEN LangTimeoutTexts ELSE {{}}) :
            /\ sinceStart = Interval
            /\ Commit(TimeOut(State, t, eText))

\* A clock unit passes and the interval timer ticks: #onInterval.
OnInterval ==
    /\ nextTick = 1
    /\ Commit(OnIntervalBody([Advance(State) EXCEPT !.nextTick = Interval]))

\* A clock unit passes and #intervalEnd is reached with the resume timer set:
\* #onResumeInterval.
OnResumeInterval ==
    /\ nextTick = 0 /\ timeoutId /\ intervalEnd = 1
    /\ Commit(OnResumeIntervalBody(Advance(State)))

\* A clock unit passes and no timer of the queue is due.
Elapse ==
    /\ nextTick # 1
    /\ ~(nextTick = 0 /\ timeoutId /\ intervalEnd = 1)
    /\ Advance(State) # State
    /\ Commit(Advance(State))

\* The mqtt client delivers a push message.
ReceiveUpdate ==
    \E params \in PushParams :
        Commit(ReceiveUpdateBody(State, params))

\* A 2 s revert timer fires.
RevertFire ==
    \E r \in reverts :
        Commit(RevertBody(State, r))

Next ==
    \/ SetDesiredState
    \/ PollTick
    \/ PowerTick
    \/ TransportReply
    \/ TransportError
    \/ QueueTimeout
    \/ OnInterval
    \/ OnResumeInterval
    \/ Elapse
    \/ ReceiveUpdate
    \/ RevertFire

Spec == Init /\ [][Next]_vars

\* The state as it is, the last step's events included.
Cur == [State EXCEPT !.ev = ev]

\* ENABLED <<A>>_vars for the timers of the queue, written out as state
\* predicates: a timer step is possible when the timer is due and firing it
\* changes the state.
OnIntervalEnabled ==
    nextTick = 1 /\ OnIntervalBody([Advance(State) EXCEPT !.nextTick = Interval]) # Cur
OnResumeIntervalEnabled == nextTick = 0 /\ timeoutId /\ intervalEnd = 1
ElapseEnabled ==
    /\ nextTick # 1
    /\ ~(nextTick = 0 /\ timeoutId /\ intervalEnd = 1)
    /\ Advance(State) # State
QueueTimeoutEnabled == pending # {} /\ sinceStart = Interval

\* The timers of the event loop fire: time passes, the queue's interval and
\* resume timers and the timeout timer of a started task are weakly fair
\* (WF_vars(A) with its ENABLED <<A>>_vars replaced by the predicate above).
\* Nothing is assumed of the transport.
LiveSpec ==
    /\ Spec
    /\ ([]<>(~OnIntervalEnabled) \/ []<><<OnInterval>>_vars)
    /\ ([]<>(~OnResumeIntervalEnabled) \/ []<><<OnResumeInterval>>_vars)
    /\ ([]<>(~ElapseEnabled) \/ []<><<Elapse>>_vars)
    /\ ([]<>(~QueueTimeoutEnabled) \/ []<><<QueueTimeout>>_vars)

\* ENABLED <<PollTick>>_vars: the refresh timer (lines 78-81) may call
\* requestUpdate() and the call changes the state.
PollTickEnabled ==
    Submissions < MaxSubmissions /\ RequestUpdate(State, FALSE) # Cur

\* LiveSpec with the refresh timer of lines 78-81 weakly fair as well.
PollLiveSpec ==
    /\ LiveSpec
    /\ ([]<>(~PollTickEnabled) \/ []<><<PollTick>>_vars)

\* ----------------------------------------------------- type invariant
Opt(S) == {Undefined} \cup {Def(x) : x \in S}

TypeOK ==
    /\ cacheState \in BOOLEAN
    /\ isToggleX \in Opt(BOOLEAN)
    /\ cachePower \in Opt(PowerVals)
    /\ cacheVoltage \in Opt(VoltageVals)
    /\ cacheInUse \in Opt(BOOLEAN)
    /\ updateInProgress \in BOOLEAN
    /\ isOnline \in BOOLEAN
    /\ ipAddress \in Opt(IpVals)
    /\ charOn \in BOOLEAN
    /\ charInUse \in BOOLEAN
    /\ intervalCount \in 0..IntervalCap
    /\ nextTick \in 0..Interval
    /\ intervalEnd \in 0..Interval
    /\ timeoutId \in BOOLEAN
    /\ sinceStart \in 0..Interval
    /\ powerIntervals \in 0..1
    /\ nextId \in 3..(MaxSubmissions + 4)
    /\ Len(sendCount) = nextId - 1
    /\ Cardinality(reverts) <= MaxSubmissions


\* ============================================================ claims
InFlight == pending \cup abandoned
QueuedTasks == {queue[i] : i \in 1..Len(queue)}
Count(t, id) == Len(EventsOf(t, id))
Notified(field) == Len(SelectSeq(ev, LAMBDA e : e.t = "notify" /\ e.x.field = field))

\* C1: in every reachable state at most one transport send (state poll, power
\* probe or poll, on/off command) is in flight to the device, also after the
\* queue has timed a task out and moved on to the next one.
C1_AtMostOneSendInFlight == Cardinality(InFlight) <= 1

C3_TimeoutDoesNotBlock ==
    /\ [][\A t \in abandoned' \ abandoned :
            \E i \in DOMAIN ev' :
                /\ ev'[i].t = "reject" /\ ev'[i].id = t.id
                /\ ev'[i].x.err = "TimeoutError"]_vars
    /\ <>[](queue = <<>>)

\* C3 witness: in the step that timed a task out the queue started the next
\* task, and the timed-out task's transport call is still outstanding.
C3_Witness ==
    \E i, j \in DOMAIN ev :
        /\ i < j
        /\ ev[i].t = "reject" /\ ev[i].x.err = "TimeoutError"
        /\ ev[j].t = "start"
        /\ \E a \in abandoned : a.id = ev[i].id
        /\ \E b \in pending : b.id = ev[j].id

\* C4: a command whose value equals cacheState when its task runs sends nothing,
\* leaves the cache as it is, records no history entry and completes without
\* error.
C4_NoChangeCommandDoesNothing ==
    \A i \in DOMAIN ev : LET e == ev[i] IN
        (e.t = "start" /\ e.x.task.kind = "cmd" /\ e.x.task.value = e.x.cacheState)
        => /\ Count("send", e.id) = 0
           /\ sendCount[e.id] = 0
           /\ cacheState = e.x.cacheState
           /\ Count("cacheWrite", e.id) = 0
           /\ Count("addEntry", e.id) = 0
           /\ Count("reject", e.id) = 0
           /\ Count("hapError", e.id) = 0
           /\ Count("resolve", e.id) = 1
           /\ e.x.task \notin InFlight

\* C4 witness: such a command has just run.
C4_Witness ==
    \E i \in DOMAIN ev : LET e == ev[i] IN
        /\ e.t = "start" /\ e.x.task.kind = "cmd"
        /\ e.x.task.value = e.x.cacheState
        /\ Count("resolve", e.id) = 1

\* C5: after every applyUpdate call each cached field (on/off, power, voltage)
\* present in the fragment equals the value delivered, the call emits exactly one
\* notification for each of these fields whose value differed from the cache and
\* none for the others, and a fragment that equals the cache changes nothing.
C5_ApplyUpdateDeltas ==
    \A i \in DOMAIN ev : LET e == ev[i] IN
        e.t = "applyUpdate" =>
        LET d == e.x.data
            onDiff == d.onoff # Undefined /\ (d.onoff[1] = 1) # e.x.cacheState
            powerDiff == d.power # Undefined /\ d.power # e.x.cachePower
            voltageDiff == d.voltage # Undefined /\ d.voltage # e.x.cacheVoltage
        IN  /\ d.onoff # Undefined => cacheState = (d.onoff[1] = 1)
            /\ d.power # Undefined => cachePower = d.power
            /\ d.voltage # Undefined => cacheVoltage = d.voltage
            /\ Notified("On") = IF onDiff THEN 1 ELSE 0
            /\ Notified("CurrentConsumption") = IF powerDiff THEN 1 ELSE 0
            /\ Notified("Voltage") = IF voltageDiff THEN 1 ELSE 0
            /\ Count("addEntry", 0) = IF onDiff THEN 1 ELSE 0
            /\ (~onDiff /\ ~powerDiff /\ ~voltageDiff)
               => /\ Events("notify") = <<>>
                  /\ cacheState = e.x.cacheState
                  /\ cachePower = e.x.cachePower
                  /\ cacheVoltage = e.x.cacheVoltage
                  /\ cacheInUse = e.x.cacheInUse

\* C5 witness: a fragment changed the power (with a notification) and left the
\* voltage, which it repeated, alone.
C5_Witness ==
    \E i \in DOMAIN ev : LET e == ev[i] IN
        /\ e.t = "applyUpdate"
        /\ e.x.data.power # Undefined /\ e.x.cachePower # Undefined
        /\ e.x.data.power # e.x.cachePower
        /\ e.x.data.voltage = e.x.cacheVoltage
        /\ Notified("CurrentConsumption") = 1
        /\ Notified("Voltage") = 0


\* The task with the given id, among those whose send is in flight.
InFlightTask(id) == CHOOSE t \in InFlight : t.id = id

\* The parts of C6 the code and the claim agree on: a failed command throws
\* HapStatusError(-70402) at its caller, arms one 2 s timer, and its sendUpdate
\* was called once and is never called again.
C6_FailureReported ==
    /\ \A i \in DOMAIN ev : LET e == ev[i] IN
        (e.t = "reject" /\ e.x.kind = "cmd")
        => /\ Count("hapError", e.id) = 1
           /\ \A j \in DOMAIN ev :
                (ev[j].t = "hapError" /\ ev[j].id = e.id) => ev[j].x.code = -70402
           /\ \E r \in reverts : r.id = e.id
           /\ Count("send", e.id) = 0
           /\ sendCount[e.id] = 1
    /\ \A id \in DOMAIN sendCount : sendCount[id] <= 1

\* C6 as claimed: when the send of a command fails or times out the caller gets
\* HAP status -70402, the command is not sent again, and when the 2 s timer
\* fires the visible On value is set to the cache value held before the command
\* was issued.
C6_RevertsToPreCommandValue ==
    /\ C6_FailureReported
    /\ \A i \in DOMAIN ev : LET e == ev[i] IN
        e.t = "revert" => charOn = e.x.pre

\* C6 as amended: the same, except that the timer sets the visible On value to
\* the value cacheState has at the moment the timer fires.
C6_RevertsToCurrentCache ==
    /\ C6_FailureReported
    /\ \A i \in DOMAIN ev : LET e == ev[i] IN
        e.t = "revert" => /\ charOn = cacheState
                          /\ Notified("On") = 1

\* C6 witness: the timer of a failed command fired after the cache had moved
\* away from the value held before the command.
C6_Witness ==
    \E i \in DOMAIN ev :
        ev[i].t = "revert" /\ ev[i].x.pre # cacheState /\ charOn = cacheState

\* C7 as claimed: once isToggleX has been resolved, no later poll response or
\* push update changes it.
C7_VariantResolvedOnce ==
    [][isToggleX # Undefined => isToggleX' = isToggleX]_vars

\* C7 as amended: every poll response that carries a togglex[0] or toggle digest
\* sets isToggleX to that digest's variant, also when it was resolved before;
\* nothing else changes it (no push update, no response without digest), and it
\* never returns to undefined.
C7_VariantFollowsLastDigest ==
    [][/\ isToggleX # Undefined => isToggleX' # Undefined
       /\ \A i \in DOMAIN ev' : LET e == ev'[i] IN
            e.t = "digest" =>
                isToggleX' = CASE e.x.digest = "togglex" -> Def(TRUE)
                               [] e.x.digest = "toggle" -> Def(FALSE)
                               [] OTHER -> e.x.before
       /\ isToggleX' # isToggleX => \E i \in DOMAIN ev' : ev'[i].t = "digest"]_vars

\* C7 witness: a poll response changed an already resolved variant.
C7_Witness ==
    \E i \in DOMAIN ev :
        /\ ev[i].t = "digest"
        /\ ev[i].x.before = Def(TRUE)
        /\ isToggleX = Def(FALSE)

\* The send of an on/off command made in the last step while isToggleX was
\* undefined (nothing after a send changes isToggleX within a step).
IsCommandSendWhileUnknown(e) ==
    /\ e.t = "send"
    /\ e.x.namespace \in {"Appliance.Control.ToggleX", "Appliance.Control.Toggle"}
    /\ isToggleX = Undefined

\* C8 as claimed: a command executed while the variant is unknown is sent as
\* Appliance.Control.ToggleX with payload togglex {onoff, channel: 0}.
C8_UnknownSendsToggleX ==
    \A i \in DOMAIN ev : LET e == ev[i] IN
        IsCommandSendWhileUnknown(e) =>
            /\ e.x.namespace = "Appliance.Control.ToggleX"
            /\ e.x.payload = [key |-> "togglex", channel |-> Def(0),
                              onoff |-> Def(IF InFlightTask(e.id).value THEN 1 ELSE 0)]

\* C8 as amended: a command executed while the variant is unknown is sent as
\* Appliance.Control.Toggle with payload toggle {onoff} and no channel, the
\* command that is sent once the variant has been resolved to Legacy.
C8_UnknownSendsToggle ==
    \A i \in DOMAIN ev : LET e == ev[i] IN
        IsCommandSendWhileUnknown(e) =>
            /\ e.x.namespace = "Appliance.Control.Toggle"
            /\ e.x.payload = [key |-> "toggle", channel |-> Undefined,
                              onoff |-> Def(IF InFlightTask(e.id).value THEN 1 ELSE 0)]

\* C8 witness: a command was sent while the variant was unknown.
C8_Witness ==
    \E i \in DOMAIN ev : IsCommandSendWhileUnknown(ev[i])

\* C9: a failed state poll sets online to false and fires one accessory update
\* exactly when the error text contains 'EHOSTUNREACH' or 'timed out' and online
\* was true or the poll is the first run; otherwise it fires none and leaves
\* online as it was.
C9_OfflineOnConnectivityFailure ==
    \A i \in DOMAIN ev : LET e == ev[i] IN
        e.t = "pollFailed" =>
        LET marks == /\ \E el \in {"EHOSTUNREACH", "timed out"} : el \in e.x.eText
                     /\ (e.x.isOnline \/ e.x.firstRun)
        IN  /\ Count("updateAccessory", e.id) = IF marks THEN 1 ELSE 0
            /\ isOnline = IF marks THEN FALSE ELSE e.x.isOnline

\* C9 witness: a 'timed out' failure of a later poll while online is already
\* false, which fires nothing.
C9_Witness ==
    \E i \in DOMAIN ev : LET e == ev[i] IN
        /\ e.t = "pollFailed"
        /\ ~e.x.firstRun /\ ~e.x.isOnline /\ "timed out" \in e.x.eText
        /\ Count("updateAccessory", e.id) = 0 /\ ~isOnline

\* A poll response with everything requestUpdate reads.
WellFormed(res) ==
    res.all /\ res.system /\ res.macAddress
    /\ res.innerIp # Undefined /\ res.online # Undefined

\* C10: a successful first-run poll with a well-formed response always fires the
\* accessory update, also when nothing changed; a later one fires it exactly
\* when the reported IP address or online status differs from the stored one.
C10_PollNotification ==
    \A i \in DOMAIN ev : LET e == ev[i] IN
        (e.t = "pollDone" /\ WellFormed(e.x.res)) =>
        LET differs == \/ e.x.res.innerIp # e.x.ipAddress
                       \/ (e.x.res.online[1] = 1) # e.x.isOnline
        IN  Count("updateAccessory", e.id) =
                IF e.x.firstRun \/ differs THEN 1 ELSE 0

\* C10 witness: the first-run poll found nothing changed and still fired the
\* accessory update.
C10_Witness ==
    \E i \in DOMAIN ev : LET e == ev[i] IN
        /\ e.t = "pollDone" /\ WellFormed(e.x.res) /\ e.x.firstRun
        /\ e.x.res.innerIp = e.x.ipAddress
        /\ (e.x.res.online[1] = 1) = e.x.isOnline
        /\ Count("updateAccessory", e.id) = 1

\* The applyUpdate call of claim C11: the fragment {power: 12000, voltage: 2300}
\* applied while cacheState is true and no power or voltage is cached.
IsC11Call(e) ==
    /\ e.t = "applyUpdate"
    /\ e.x.data = Fragment(Undefined, Def(12000), Def(2300))
    /\ e.x.cacheState
    /\ e.x.cachePower = Undefined /\ e.x.cacheVoltage = Undefined

\* The value (in hundredths) the last step reported for a characteristic.
ReportedPower == {ev[j].x.centiwatts : j \in {k \in DOMAIN ev :
                    ev[k].t = "notify" /\ ev[k].x.field = "CurrentConsumption"}}
ReportedVoltage == {ev[j].x.centivolts : j \in {k \in DOMAIN ev :
                    ev[k].t = "notify" /\ ev[k].x.field = "Voltage"}}

\* C11 as claimed: applyUpdate on {power: 12000, voltage: 2300} with threshold 5,
\* cacheState true and an empty power/voltage cache reports 1.20 W, sets inUse to
\* false and reports 23.00 V.
C11_ScalesTo120And2300 ==
    \A i \in DOMAIN ev :
        IsC11Call(ev[i]) =>
            /\ InUsePowerThreshold = 5
            /\ ReportedPower = {120}
            /\ cacheInUse = Def(FALSE)
            /\ ReportedVoltage = {2300}

\* C11 as amended: the same call reports 12.00 W (raw / 1000), sets inUse to true
\* because 12.00 is greater than 5, and reports 230.00 V (raw / 10).
C11_ScalesTo1200And23000 ==
    \A i \in DOMAIN ev :
        IsC11Call(ev[i]) =>
            /\ InUsePowerThreshold = 5
            /\ ReportedPower = {1200}
            /\ cacheInUse = Def(TRUE) /\ charInUse
            /\ ReportedVoltage = {23000}

\* C11 witness: that call has just been made.
C11_Witness ==
    \E i \in DOMAIN ev : IsC11Call(ev[i]) /\ cachePower = Def(12000)

\* C12: receiveUpdate, for every push fragment (none, without payload or
\* malformed included), raises nothing to its caller, submits no task to the
\* queue, starts and sends nothing, leaves updateInProgress alone, and changes
\* the cache only through applyUpdate; it may run while a task is in flight.
C12_PushBypassesQueue ==
    [][(\E i \in DOMAIN ev' : ev'[i].t = "push") =>
        /\ \A i \in DOMAIN ev' : ev'[i].t = "push" => ~ev'[i].x.raised
        /\ \A i \in DOMAIN ev' : ev'[i].t \notin {"send", "start"}
        /\ UNCHANGED <<queue, pending, abandoned, nextId, sendCount,
                       intervalCount, updateInProgress, reverts>>
        /\ (\A i \in DOMAIN ev' : ev'[i].t # "applyUpdate")
           => UNCHANGED <<cacheState, cachePower, cacheVoltage, cacheInUse, charOn>>]_vars

\* C12 witness: a push message without usable content arrived, and was caught,
\* while a task was in flight and updateInProgress was set.
C12_Witness ==
    /\ \E i \in DOMAIN ev : ev[i].t = "push" /\ ev[i].x.shape = "undefined"
                             /\ ev[i].x.caught
    /\ pending # {} /\ updateInProgress

\* C13: for any two tasks the queue starts one after the other, the second
\* starts at least 250 ms (one interval) after the first started, whatever is
\* submitted and however quickly tasks complete.
C13_MinimumSpacing ==
    \A i \in DOMAIN ev :
        (ev[i].t = "start" /\ ev[i].id > 1) => ev[i].x.sinceStart >= Interval

\* C14: the periodic power-polling loop is started at most once, and only by a
\* start-up probe that received electricity telemetry; a probe that ended with a
\* malformed response, a transport error or a timeout never starts the loop and
\* raises nothing at its caller, and the loop once started is never undone.
C14_LoopOnlyAfterGoodProbe ==
    [][/\ powerIntervals' >= powerIntervals
       /\ powerIntervals' <= 1
       /\ \A i \in DOMAIN ev' : LET e == ev'[i] IN
            /\ e.t = "setInterval" =>
                    /\ powerIntervals = 0
                    /\ \E t \in pending : t.id = e.id /\ t.kind = "probe"
                    /\ \A a \in abandoned : a.id # e.id
            /\ (e.t = "reject" /\ e.x.kind = "probe") =>
                    /\ powerIntervals' = powerIntervals
                    /\ \A j \in DOMAIN ev' :
                            ev'[j].id = e.id => ev'[j].t \notin {"setInterval", "hapError"}]_vars

\* The tasks submitted by the last step: those of the queue, running or
\* finished in the step that carry an id the step handed out.
IsNewId(id) == id >= nextId

\* C15: requestUpdate never submits a state poll while another task of the
\* queue (command, power probe or poll, earlier state poll) is still queued or
\* running; so at most one state poll is queued or running at any time.
C15_PollOnlyWhenQueueIdle ==
    /\ [][\A t \in (pending' \cup {queue'[i] : i \in DOMAIN queue'}) :
            (t.kind = "poll" /\ IsNewId(t.id))
            => (queue = <<>> /\ pending = {} /\ abandoned = {})]_vars
    /\ [](Cardinality({t \in InFlight \cup QueuedTasks : t.kind = "poll"}) <= 1)

\* The commands the handler still works on: waiting in the queue, started and
\* not settled, or timed out with their transport call outstanding.
CommandsInHand == {t \in InFlight \cup QueuedTasks : t.kind = "cmd"}

\* C16: whenever no command is queued or running and no revert timer is
\* pending, the visible On value equals cacheState; a delayed revert never
\* leaves the visible value different from a newer accepted intent.
C16_VisibleMatchesCache ==
    (CommandsInHand = {} /\ reverts = {}) => charOn = cacheState

\* C17: a command that was reported to its caller as failed (the queue's 10 s
\* timeout included, with the transport call still running) never afterwards
\* changes cacheState and never afterwards records a history entry.
C17_FailedCommandWritesNothing ==
    [][\A i \in DOMAIN ev' :
            ev'[i].t \in {"cacheWrite", "addEntry"}
            => \A a \in abandoned : a.kind = "cmd" => a.id # ev'[i].id]_vars

\* C18: updateInProgress, once set by a task, is reset when the queue has no
\* queued or running task, also when the task failed or timed out; with the
\* refresh timer fair the flag is clear again and again, and submissions are
\* not held back forever: a later tick submits a state poll unless the
\* submissions were used up otherwise.
C18_PollingNotSuppressedForever ==
    /\ []((queue = <<>> /\ pending = {}) => ~updateInProgress)
    /\ []<>(~updateInProgress)
    /\ <>(Submissions = MaxSubmissions)

\* C18 witness: a state poll submitted by a refresh tick has been started while
\* a task the queue timed out earlier is still outstanding.
C18_Witness ==
    /\ \E i \in DOMAIN ev :
            /\ ev[i].t = "start" /\ ev[i].id > 2
            /\ ev[i].x.task.kind = "poll"
    /\ abandoned # {}
    /\ updateInProgress

\* C19: in every state after a power reading has been applied, inUse equals
\* (cacheState and scaledPower > inUsePowerThreshold), for any interleaving of
\* on/off changes and power readings; inUse is never true while cacheState is
\* false.
C19_InUseDerived ==
    cachePower # Undefined
    => cacheInUse = Def(cacheState
                        /\ ScaledPower(cachePower[1]) > InUsePowerThreshold * 100)

\* C19 as the code has it: a reading that changes the cached power leaves
\* inUse equal to (cacheState and scaledPower > inUsePowerThreshold); any other
\* step, an on/off change included, leaves an inUse value once set as it was.
C19_InUseRecomputedOnPowerChange ==
    [][/\ cachePower' # cachePower
          => cacheInUse' = Def(cacheState'
                               /\ ScaledPower(cachePower'[1]) > InUsePowerThreshold * 100)
       /\ (cachePower' = cachePower /\ cacheInUse # Undefined)
          => cacheInUse' = cacheInUse]_vars

\* C19 witness: a reading above the threshold was applied while on, the switch
\* went off afterwards, and inUse is still true.
C19_Witness ==
    /\ cachePower = Def(12000)
    /\ cacheInUse = Def(TRUE)
    /\ ~cacheState

\* C20: a power poll of the steady-state loop that fails (transport error or
\* timeout) leaves the online flag, cacheState and the cached power, voltage
\* and inUse unchanged, notifies no accessory update, and records exactly one
\* history entry, of zero power, for the poll the queue was waiting for.
C20_PowerPollFailureFrame ==
    [][\A i \in DOMAIN ev' : LET e == ev'[i] IN
            (e.t = "reject" /\ e.x.kind = "power") =>
                /\ UNCHANGED <<isOnline, cacheState, cachePower, cacheVoltage,
                               cacheInUse>>
                /\ \A j \in DOMAIN ev' : ev'[j].t # "updateAccessory"
                /\ Cardinality({j \in DOMAIN ev' : ev'[j].t = "addEntry"}) = 1
                /\ \E j \in DOMAIN ev' :
                        /\ ev'[j].t = "addEntry" /\ ev'[j].id = e.id
                        /\ ev'[j].x.power = 0
                /\ \E t \in pending : t.id = e.id /\ t \notin pending']_vars

\* C20 witness: a power poll has just been timed out by the queue while the
\* device was online with a reading above the threshold cached.
C20_Witness ==
    /\ \E i \in DOMAIN ev :
            /\ ev[i].t = "reject" /\ ev[i].x.kind = "power"
            /\ ev[i].x.err = "TimeoutError"
    /\ isOnline
    /\ cachePower = Def(12000)
    /\ cacheInUse = Def(TRUE)

====
